---- MODULE Spec2Model ----
(***************************************************************************)
(* teamhephy/router: the reconciliation loop (router.go main), the model   *)
(* synthesis (model.Build) and the certificate materializer                *)
(* (nginx.WriteCerts, nginx.WriteDHParam, nginx.WriteConfig).              *)
(***************************************************************************)
EXTENDS Integers, Sequences, FiniteSets, TLC

VARIABLES
    pc,            \* position of the main loop / of the materializer harness
    routerConfig,  \* the snapshot of the tick (a variable of the loop body; Nil before Build)
    known,         \* the last successfully applied snapshot
    certDir,       \* /opt/router/ssl: file |-> [data, mode]
    confFile,      \* /opt/router/conf/nginx.conf
    log,           \* the steps the current tick has invoked, with their outcome
    failed,        \* the snapshot whose apply failed, until a later synthesis succeeds
    firstDir,      \* materializer harness: directory after the first full run
    kubeClient,    \* synthesis on its own: the cluster state Build queries
    built          \* synthesis on its own: what Build returned (Nil before the call)

vars == <<pc, routerConfig, known, certDir, confFile, log, failed, firstDir, kubeClient, built>>

\* ------------------------------------------------------------------ bounds

\* How many routable services the cluster lists at once, in the reconciliation
\* loop and in the materializer runs.
MaxRoutable == 1
MaxListed == 2

\* ------------------------------------------------------------- primitives

\* A nil pointer (of any struct type).
Nil == [nil |-> TRUE]

Range(s) == {s[i] : i \in DOMAIN s}

\* f without the key k.
Without(f, k) == [x \in (DOMAIN f) \ {k} |-> f[x]]

\* f with k bound to v (inserted or overwritten).
With(f, k, v) == [x \in (DOMAIN f) \cup {k} |-> IF x = k THEN v ELSE f[x]]

EmptyMap == [x \in {} |-> Nil]

\* strings.Contains(domain, "."), over the domain names of the model.
DottedDomains == {"foo.com"}
HasDot(domain) == domain \in DottedDomains

\* fmt.Sprintf("%s-cert", certMapping), over the aliases of the model.
CertSecretName == [alias \in {"foo"} |-> "foo-cert"]

\* The namespace the router runs in (POD_NAMESPACE).
namespace == "deis"

\* ------------------------------------------------------ model.Build (model.go)

newSSLConfig == [ BufferSize |-> "4k", DHParam |-> "" ]

\* The defaults for nil, else a copy through gob: a new object whose fields
\* equal the argument's.
newProxyBuffersConfig(proxyBuffersConfig) ==
    IF proxyBuffersConfig # Nil THEN proxyBuffersConfig
    ELSE [ Enabled |-> FALSE, Number |-> 8, Size |-> "4k", BusySize |-> "8k" ]

newNginxAppConfig(rc) ==
    [ ProxyBuffersConfig |-> newProxyBuffersConfig(rc.ProxyBuffersConfig) ]

newRouterConfig ==
    [ DefaultTimeout      |-> "1300s",
      SSLConfig           |-> newSSLConfig,
      ProxyBuffersConfig  |-> newProxyBuffersConfig(Nil),
      AppConfigs          |-> <<>>,
      BuilderConfig       |-> Nil,
      PlatformCertificate |-> Nil ]

\* known initialised with the defaults of newRouterConfig.
RouterConfigOfDefaults == newRouterConfig

\* The zero value &model.RouterConfig{}: every pointer nil, every string empty.
EmptyRouterConfig ==
    [ DefaultTimeout      |-> "",
      SSLConfig           |-> Nil,
      ProxyBuffersConfig  |-> Nil,
      AppConfigs          |-> <<>>,
      BuilderConfig       |-> Nil,
      PlatformCertificate |-> Nil ]

newCertificate(cert, key) == [ Cert |-> cert, Key |-> key ]

newAppConfig(rc) ==
    [ Name           |-> <<>>,
      Domains        |-> <<>>,
      ConnectTimeout |-> "30s",
      TCPTimeout     |-> rc.DefaultTimeout,
      ServiceIP      |-> "",
      Certificates   |-> EmptyMap,
      Available      |-> FALSE,
      Maintenance    |-> FALSE,
      Nginx          |-> newNginxAppConfig(rc),
      ProxyLocations |-> <<>>,
      ProxyDomain    |-> "",
      Locations      |-> <<>> ]

newBuilderConfig == [ ConnectTimeout |-> "10s", TCPTimeout |-> "1200s", ServiceIP |-> "" ]

\* The values that satisfy the constraint ^[1-9]\d*(ms|[smhdwMy])?$ among the
\* annotation values of the model.
ValidTimeouts == {"1500s", "45s"}

\* modeler.MapToModel, one field: the annotation's value when the key is present
\* and the value satisfies the field's constraint, else the field as it was.
BindField(annotations, key, current, valid) ==
    IF key \in DOMAIN annotations /\ annotations[key] \in valid
    THEN annotations[key] ELSE current

\* The values that satisfy the constraint ^[1-9]\d*[kKmM]?$ among the
\* annotation values of the model.
ValidSizes == {"16k", "6k"}

\* The values that satisfy the constraint (?i)^(true|false)$ among the
\* annotation values of the model, with the boolean each stands for.
ParseBool == [v \in {"true", "false"} |-> v = "true"]

\* modeler.MapToModel, one boolean field.
BindBool(annotations, key, current) ==
    IF key \in DOMAIN annotations /\ annotations[key] \in DOMAIN ParseBool
    THEN ParseBool[annotations[key]] ELSE current

\* modeler.MapToModel on a RouterConfig: the annotated fields of the model, those
\* of the nested SSLConfig and ProxyBuffersConfig under their dotted keys.
MapToRouterConfig(annotations, rc) ==
    [rc EXCEPT !.DefaultTimeout = BindField(annotations, "defaultTimeout", @, ValidTimeouts),
               !.SSLConfig.BufferSize = BindField(annotations, "ssl.bufferSize", @, ValidSizes),
               !.ProxyBuffersConfig.Enabled = BindBool(annotations, "proxyBuffers.enabled", @),
               !.ProxyBuffersConfig.Size =
                   BindField(annotations, "proxyBuffers.size", @, ValidSizes)]

\* modeler.MapToModel on an AppConfig. Domains, certificates, proxyDomain and
\* proxyLocations are taken from the service as parsed lists.
MapToAppConfig(annotations, appConfig) ==
    [appConfig EXCEPT
        !.ConnectTimeout = BindField(annotations, "connectTimeout", @, ValidTimeouts),
        !.TCPTimeout = BindField(annotations, "tcpTimeout", @, ValidTimeouts),
        !.Maintenance = BindBool(annotations, "maintenance", @),
        !.Nginx.ProxyBuffersConfig.Enabled =
            BindBool(annotations, "nginx.proxyBuffers.enabled", @),
        !.Nginx.ProxyBuffersConfig.Size =
            BindField(annotations, "nginx.proxyBuffers.size", @, ValidSizes)]

\* modeler.MapToModel on a BuilderConfig.
MapToBuilderConfig(annotations, builderConfig) ==
    [builderConfig EXCEPT
        !.ConnectTimeout = BindField(annotations, "connectTimeout", @, ValidTimeouts),
        !.TCPTimeout = BindField(annotations, "tcpTimeout", @, ValidTimeouts)]

\* A cluster call: [err |-> TRUE] for a failure other than not-found, else
\* [err |-> FALSE, val |-> the object, or Nil when it is not found (404)].
Failed == [err |-> TRUE, val |-> Nil]
Ok(v) == [err |-> FALSE, val |-> v]

\* fmt.Errorf("Can't find ProxyDomain '%s' in any application", domain)
ProxyDomainError(domain) == [err |-> TRUE, val |-> Nil, proxyDomain |-> domain]

getDeployment(cluster) ==
    IF <<"deployments", "deis-router">> \in cluster.failing THEN Failed ELSE Ok(cluster.deployment)

getAppServices(cluster) ==
    IF <<"services", "routable">> \in cluster.failing THEN Failed ELSE Ok(cluster.services)

\* getBuilderService without the test for the status code 404.
getBuilderServiceNotFoundFails(cluster) ==
    IF <<"services", "deis-builder">> \in cluster.failing THEN Failed
    ELSE IF cluster.builder = Nil THEN Failed
    ELSE Ok(cluster.builder)

getBuilderService(cluster) ==
    IF <<"services", "deis-builder">> \in cluster.failing THEN Failed ELSE Ok(cluster.builder)

\* getSecret with every error of the Get taken for not-found.
getSecretAnyErrorNotFound(cluster, name, ns) ==
    IF <<ns, name>> \in cluster.failing THEN Ok(Nil)
    ELSE IF <<ns, name>> \in DOMAIN cluster.secrets
         THEN Ok(cluster.secrets[<<ns, name>>])
         ELSE Ok(Nil)

getSecret(cluster, name, ns) ==
    IF <<ns, name>> \in cluster.failing THEN Failed
    ELSE IF <<ns, name>> \in DOMAIN cluster.secrets
         THEN Ok(cluster.secrets[<<ns, name>>])
         ELSE Ok(Nil)

\* getEndpoints with an Endpoints object without subsets taken for an error.
getEndpointsNoSubsetFails(cluster, service) ==
    IF <<service.Namespace, service.Name>> \in DOMAIN cluster.endpoints
           /\ Len(cluster.endpoints[<<service.Namespace, service.Name>>]) > 0
    THEN Ok(cluster.endpoints[<<service.Namespace, service.Name>>])
    ELSE Failed

\* endpointsClient.Get: every error of the Get, the not-found of an absent
\* Endpoints object included, is an error of buildAppConfig.
getEndpoints(cluster, service) ==
    IF <<service.Namespace, service.Name>> \in DOMAIN cluster.endpoints
    THEN Ok(cluster.endpoints[<<service.Namespace, service.Name>>])
    ELSE Failed

\* buildCertificate without the test for the entry tls.key: the key of a secret
\* that lacks it is the empty string.
buildCertificateKeyUnchecked(certSecret) ==
    IF "tls.crt" \notin DOMAIN certSecret THEN Nil
    ELSE newCertificate(certSecret["tls.crt"],
                        IF "tls.key" \in DOMAIN certSecret THEN certSecret["tls.key"] ELSE "")

buildCertificate(certSecret) ==
    IF "tls.crt" \notin DOMAIN certSecret THEN Nil
    ELSE IF "tls.key" \notin DOMAIN certSecret THEN Nil
    ELSE newCertificate(certSecret["tls.crt"], certSecret["tls.key"])

buildDHParam(dhParamSecret) ==
    IF "dhparam" \notin DOMAIN dhParamSecret THEN "" ELSE dhParamSecret["dhparam"]

buildRouterConfig(routerDeployment, platformCertSecret, dhParamSecret) ==
    LET rc0 == newRouterConfig
        rc1 == MapToRouterConfig(routerDeployment, rc0)
        rc2 == IF platformCertSecret # Nil
               THEN [rc1 EXCEPT !.PlatformCertificate = buildCertificate(platformCertSecret)]
               ELSE rc1
    IN  IF dhParamSecret # Nil
        THEN [rc2 EXCEPT !.SSLConfig.DHParam = buildDHParam(dhParamSecret)]
        ELSE rc2

\* bindCertificates with the certificate mapping looked up before the test for a
\* dot in the domain.
RECURSIVE bindCertificatesMappingFirst(_, _, _, _, _, _)
bindCertificatesMappingFirst(cluster, service, rc, domains, i, certs) ==
    IF i > Len(domains) THEN Ok(certs)
    ELSE LET domain == domains[i] IN
         IF domain \in DOMAIN service.certificates
         THEN LET got == getSecret(cluster, CertSecretName[service.certificates[domain]],
                                   service.Namespace)
              IN  IF got.err THEN Failed
                  ELSE IF got.val # Nil
                       THEN bindCertificatesMappingFirst(cluster, service, rc, domains, i + 1,
                                With(certs, domain, buildCertificate(got.val)))
                       ELSE bindCertificatesMappingFirst(cluster, service, rc, domains, i + 1, certs)
         ELSE IF HasDot(domain)
              THEN bindCertificatesMappingFirst(cluster, service, rc, domains, i + 1, certs)
              ELSE bindCertificatesMappingFirst(cluster, service, rc, domains, i + 1,
                       With(certs, domain, rc.PlatformCertificate))

\* The certificate loop of buildAppConfig over appConfig.Domains[i..]: the map
\* built so far, or an error at the first secret whose fetch fails.
RECURSIVE bindCertificates(_, _, _, _, _, _)
bindCertificates(cluster, service, rc, domains, i, certs) ==
    IF i > Len(domains) THEN Ok(certs)
    ELSE LET domain == domains[i] IN
         IF HasDot(domain)
         THEN IF domain \in DOMAIN service.certificates
              THEN LET got == getSecret(cluster, CertSecretName[service.certificates[domain]],
                                        service.Namespace)
                   IN  IF got.err THEN Failed
                       ELSE IF got.val # Nil
                            THEN bindCertificates(cluster, service, rc, domains, i + 1,
                                     With(certs, domain, buildCertificate(got.val)))
                            ELSE bindCertificates(cluster, service, rc, domains, i + 1, certs)
              ELSE bindCertificates(cluster, service, rc, domains, i + 1, certs)
         ELSE bindCertificates(cluster, service, rc, domains, i + 1,
                  With(certs, domain, rc.PlatformCertificate))

\* AppName without the comparison with the namespace.
AppNameAlwaysQualified(service) ==
    LET base == IF service.AppLabel = "" THEN service.Name ELSE service.AppLabel
    IN  <<service.Namespace, "/", base>>

\* appConfig.Name: the app label, else the service's name, with the namespace
\* and "/" in front unless it equals the namespace.
AppName(service) ==
    LET base == IF service.AppLabel = "" THEN service.Name ELSE service.AppLabel
    IN  IF base # service.Namespace THEN <<service.Namespace, "/", base>> ELSE <<base>>

\* buildAppConfig without the return of nil for a service without domains.
buildAppConfigNoDomainCheck(cluster, service, rc) ==
    LET a0   == [newAppConfig(rc) EXCEPT !.Name = AppName(service)]
        a1   == [MapToAppConfig(service.annotations, a0) EXCEPT
                           !.Domains = service.domains,
                           !.ProxyDomain = service.proxyDomain,
                           !.ProxyLocations = service.proxyLocations]
        certs == bindCertificates(cluster, service, rc, a1.Domains, 1, a1.Certificates)
        eps   == getEndpoints(cluster, service)
    IN  IF certs.err THEN Failed
        ELSE IF eps.err THEN Failed
        ELSE Ok([a1 EXCEPT !.Certificates = certs.val,
                           !.ServiceIP = service.ClusterIP,
                           !.Available = Len(eps.val) > 0 /\ eps.val[1] > 0])

\* [err, val]: val is the AppConfig, or Nil for a service without domains. A name
\* is the sequence of the strings it concatenates.
buildAppConfig(cluster, service, rc) ==
    LET a0   == [newAppConfig(rc) EXCEPT !.Name = AppName(service)]
        a1   == [MapToAppConfig(service.annotations, a0) EXCEPT
                           !.Domains = service.domains,
                           !.ProxyDomain = service.proxyDomain,
                           !.ProxyLocations = service.proxyLocations]
    IN  IF Len(a1.Domains) = 0 THEN Ok(Nil)
        ELSE LET certs == bindCertificates(cluster, service, rc, a1.Domains, 1, a1.Certificates)
                 eps   == getEndpoints(cluster, service)
             IN  IF certs.err THEN Failed
                 ELSE IF eps.err THEN Failed
                 ELSE Ok([a1 EXCEPT !.Certificates = certs.val,
                                    !.ServiceIP = service.ClusterIP,
                                    !.Available = Len(eps.val) > 0 /\ eps.val[1] > 0])

\* appByDomain with the search going on after a match: the last app that owns
\* the domain.
appByDomainLast(appConfigs, domain) ==
    LET hits == {i \in DOMAIN appConfigs : domain \in Range(appConfigs[i].Domains)}
    IN  IF hits = {} THEN 0 ELSE CHOOSE i \in hits : \A j \in hits : i >= j

\* The index of the first app one of whose Domains is domain; 0 for nil.
appByDomain(appConfigs, domain) ==
    LET hits == {i \in DOMAIN appConfigs : domain \in Range(appConfigs[i].Domains)}
    IN  IF hits = {} THEN 0 ELSE CHOOSE i \in hits : \A j \in hits : i <= j

\* A Location's App is a pointer to an AppConfig of the same snapshot: its index
\* in AppConfigs.
\* newLocations with every Location sharing the loop variable: all carry the
\* last path.
newLocationsLastPath(app, paths) ==
    [k \in DOMAIN paths |-> [App |-> app, Path |-> paths[Len(paths)]]]

newLocations(app, paths) == [k \in DOMAIN paths |-> [App |-> app, Path |-> paths[k]]]

RECURSIVE linkLocationsFrom(_, _)
linkLocationsFrom(appConfigs, i) ==
    IF i > Len(appConfigs) THEN Ok(appConfigs)
    ELSE LET app == appConfigs[i] IN
         IF app.ProxyDomain # "" /\ Len(app.ProxyLocations) > 0
         THEN LET targetApp == appByDomain(appConfigs, app.ProxyDomain) IN
              IF targetApp = 0 THEN ProxyDomainError(app.ProxyDomain)
              ELSE linkLocationsFrom(
                       [appConfigs EXCEPT ![targetApp].Locations =
                            @ \o newLocations(i, app.ProxyLocations)],
                       i + 1)
         ELSE linkLocationsFrom(appConfigs, i + 1)

\* linkLocations with an app whose ProxyDomain nobody owns passed over.
RECURSIVE linkLocationsLenientFrom(_, _)
linkLocationsLenientFrom(appConfigs, i) ==
    IF i > Len(appConfigs) THEN Ok(appConfigs)
    ELSE LET app == appConfigs[i] IN
         IF app.ProxyDomain # "" /\ Len(app.ProxyLocations) > 0
                /\ appByDomain(appConfigs, app.ProxyDomain) # 0
         THEN linkLocationsLenientFrom(
                  [appConfigs EXCEPT ![appByDomain(appConfigs, app.ProxyDomain)].Locations =
                       @ \o newLocations(i, app.ProxyLocations)],
                  i + 1)
         ELSE linkLocationsLenientFrom(appConfigs, i + 1)

linkLocationsLenient(appConfigs) == linkLocationsLenientFrom(appConfigs, 1)

linkLocations(appConfigs) == linkLocationsFrom(appConfigs, 1)

\* addRootLocations with the root location put in front of the list.
addRootLocationsFirst(appConfigs) ==
    [i \in DOMAIN appConfigs |->
        [appConfigs[i] EXCEPT !.Locations = <<[App |-> i, Path |-> "/"]>> \o @]]

addRootLocations(appConfigs) ==
    [i \in DOMAIN appConfigs |->
        [appConfigs[i] EXCEPT !.Locations = Append(@, [App |-> i, Path |-> "/"])]]

\* buildBuilderConfig without the call of modeler.MapToModel.
buildBuilderConfigUnbound(service) ==
    [newBuilderConfig EXCEPT !.ServiceIP = service.ClusterIP]

buildBuilderConfig(service) ==
    LET b0 == [newBuilderConfig EXCEPT !.ServiceIP = service.ClusterIP]
    IN  MapToBuilderConfig(service.annotations, b0)

\* The loop of build with newNginxAppConfig handing out the router's own
\* ProxyBuffersConfig in the place of a copy: what one app binds is what the
\* next app starts from.
RECURSIVE buildAppConfigsSharedBuffers(_, _, _, _, _)
buildAppConfigsSharedBuffers(cluster, rc, services, i, acc) ==
    IF i > Len(services) THEN Ok(acc)
    ELSE LET r == buildAppConfig(cluster, services[i], rc) IN
         IF r.err THEN Failed
         ELSE buildAppConfigsSharedBuffers(cluster,
                  IF r.val # Nil
                  THEN [rc EXCEPT !.ProxyBuffersConfig = r.val.Nginx.ProxyBuffersConfig]
                  ELSE rc,
                  services, i + 1,
                  IF r.val # Nil THEN Append(acc, r.val) ELSE acc)

\* The loop of build over appServices.Items[i..].
RECURSIVE buildAppConfigs(_, _, _, _, _)
buildAppConfigs(cluster, rc, services, i, acc) ==
    IF i > Len(services) THEN Ok(acc)
    ELSE LET r == buildAppConfig(cluster, services[i], rc) IN
         IF r.err THEN Failed
         ELSE buildAppConfigs(cluster, rc, services, i + 1,
                  IF r.val # Nil THEN Append(acc, r.val) ELSE acc)

build(cluster, routerDeployment, platformCertSecret, dhParamSecret, appServices, builderService) ==
    LET rc   == buildRouterConfig(routerDeployment, platformCertSecret, dhParamSecret)
        apps == buildAppConfigs(cluster, rc, appServices, 1, rc.AppConfigs)
    IN  IF apps.err THEN Failed
        ELSE LET linked == linkLocations(apps.val) IN
             IF linked.err THEN linked
             ELSE LET rc1 == [rc EXCEPT !.AppConfigs = addRootLocations(linked.val)]
                  IN  Ok(IF builderService # Nil
                         THEN [rc1 EXCEPT !.BuilderConfig = buildBuilderConfig(builderService)]
                         ELSE rc1)

\* model.Build: [err |-> TRUE] or [err |-> FALSE, val |-> the RouterConfig].
Build(cluster) ==
    LET routerDeployment   == getDeployment(cluster)
        appServices        == getAppServices(cluster)
        builderService     == getBuilderService(cluster)
        platformCertSecret == getSecret(cluster, "deis-router-platform-cert", namespace)
        dhParamSecret      == getSecret(cluster, "deis-router-dhparam", namespace)
    IN  IF routerDeployment.err THEN Failed
        ELSE IF appServices.err THEN Failed
        ELSE IF builderService.err THEN Failed
        ELSE IF platformCertSecret.err THEN Failed
        ELSE IF dhParamSecret.err THEN Failed
        ELSE build(cluster, routerDeployment.val, platformCertSecret.val,
                   dhParamSecret.val, appServices.val, builderService.val)

\* ------------------------------------------------- nginx/config.go: the files

\* A file of the certificate directory is <<context, extension>>, for
\* fmt.Sprintf("%s.crt", context); its value is [data, mode].
Crt(context) == <<context, "crt">>
Key(context) == <<context, "key">>
DHParamPath == <<"dhparam", "pem">>

\* The content an interrupted ioutil.WriteFile leaves behind.
Partial == "<partial>"

\* The contexts of the model in lexical order, the order filepath.Glob returns
\* its matches in.
LexicalOrder == <<"foo.com", "old.example", "platform">>

Glob(dir, ext) ==
    LET Pick(context) == <<context, ext>> \in DOMAIN dir
    IN  [i \in DOMAIN SelectSeq(LexicalOrder, Pick) |-> <<SelectSeq(LexicalOrder, Pick)[i], ext>>]

\* A filesystem operation: os.Remove / os.RemoveAll of a file, or
\* ioutil.WriteFile(file, data, perm).
RemoveOp(file) == [op |-> "remove", file |-> file]
WriteOp(file, data, perm) == [op |-> "write", file |-> file, data |-> data, perm |-> perm]

\* ioutil.WriteFile creates the file with perm, or truncates an existing file and
\* keeps the mode it has.
WriteFile(dir, file, data, perm) ==
    With(dir, file, [data |-> data,
                     mode |-> IF file \in DOMAIN dir THEN dir[file].mode ELSE perm])

Apply(dir, o) ==
    IF o.op = "remove" THEN Without(dir, o.file)
    ELSE WriteFile(dir, o.file, o.data, o.perm)

RECURSIVE ApplyOps(_, _, _)
\* dir after the first n operations of ops.
ApplyOps(dir, ops, n) ==
    IF n = 0 THEN dir ELSE Apply(ApplyOps(dir, ops, n - 1), ops[n])

\* What a failing operation can leave: nothing changed (the remove or the open
\* failed), or for a write the file created or truncated with part of the data.
FailureStates(dir, o) ==
    IF o.op = "remove" THEN {dir}
    ELSE {dir, WriteFile(dir, o.file, Partial, o.perm)}

\* A sequence of operations that stops at the first error: the set of
\* [err, dir] it can end in.
RunOps(dir, ops) ==
    {[err |-> FALSE, dir |-> ApplyOps(dir, ops, Len(ops))]}
    \cup {[err |-> TRUE, dir |-> d] :
            d \in UNION {FailureStates(ApplyOps(dir, ops, n - 1), ops[n]) : n \in DOMAIN ops}}

\* writeCert with the key written with the permissions of the certificate.
writeCertKeyReadable(context, certificate) ==
    << WriteOp(Crt(context), certificate.Cert, "0644"),
       WriteOp(Key(context), certificate.Key, "0644") >>

writeCert(context, certificate) ==
    << WriteOp(Crt(context), certificate.Cert, "0644"),
       WriteOp(Key(context), certificate.Key, "0600") >>

RECURSIVE Flatten(_)
Flatten(seqs) == IF seqs = <<>> THEN <<>> ELSE Head(seqs) \o Flatten(Tail(seqs))

\* The enumerations of a finite set: the orders a Go map range can take.
RECURSIVE Orders(_)
Orders(S) ==
    IF S = {} THEN {<<>>}
    ELSE UNION {{<<x>> \o rest : rest \in Orders(S \ {x})} : x \in S}

\* The writes of one app, for one order of its Certificates map.
AppCertWrites(appConfig) ==
    LET bound == {d \in DOMAIN appConfig.Certificates : appConfig.Certificates[d] # Nil}
    IN  {Flatten([i \in DOMAIN order |-> writeCert(order[i], appConfig.Certificates[order[i]])]) :
            order \in Orders(bound)}

RECURSIVE AppsCertWrites(_, _)
\* The writes of appConfigs[i..], for every order of the maps.
AppsCertWrites(appConfigs, i) ==
    IF i > Len(appConfigs) THEN {<<>>}
    ELSE {first \o rest : first \in AppCertWrites(appConfigs[i]),
                          rest \in AppsCertWrites(appConfigs, i + 1)}

\* WriteCerts without the removal of the files the directory holds.
WriteCertsNoRemove(rc, dir) ==
    LET platform == IF rc.PlatformCertificate # Nil
                    THEN writeCert("platform", rc.PlatformCertificate) ELSE <<>>
    IN  UNION {RunOps(dir, platform \o apps) : apps \in AppsCertWrites(rc.AppConfigs, 1)}

\* WriteCerts with the files globbed at the start removed after the writes.
WriteCertsRemoveLast(rc, dir) ==
    LET removes  == [i \in DOMAIN Glob(dir, "crt") |-> RemoveOp(Glob(dir, "crt")[i])]
                    \o [i \in DOMAIN Glob(dir, "key") |-> RemoveOp(Glob(dir, "key")[i])]
        platform == IF rc.PlatformCertificate # Nil
                    THEN writeCert("platform", rc.PlatformCertificate) ELSE <<>>
    IN  UNION {RunOps(dir, platform \o apps \o removes) : apps \in AppsCertWrites(rc.AppConfigs, 1)}

\* nginx.WriteCerts: the set of [err, dir] a call can end in.
WriteCerts(rc, dir) ==
    LET removes  == [i \in DOMAIN Glob(dir, "crt") |-> RemoveOp(Glob(dir, "crt")[i])]
                    \o [i \in DOMAIN Glob(dir, "key") |-> RemoveOp(Glob(dir, "key")[i])]
        platform == IF rc.PlatformCertificate # Nil
                    THEN writeCert("platform", rc.PlatformCertificate) ELSE <<>>
    IN  UNION {RunOps(dir, removes \o platform \o apps) : apps \in AppsCertWrites(rc.AppConfigs, 1)}

\* WriteDHParam without the removal of the file when DHParam is empty.
WriteDHParamNoRemove(rc, dir) ==
    IF rc.SSLConfig.DHParam = ""
    THEN {[err |-> FALSE, dir |-> dir]}
    ELSE RunOps(dir, <<WriteOp(DHParamPath, rc.SSLConfig.DHParam, "0644")>>)

\* nginx.WriteDHParam: the set of [err, dir] a call can end in.
WriteDHParam(rc, dir) ==
    IF rc.SSLConfig.DHParam = ""
    THEN RunOps(dir, <<RemoveOp(DHParamPath)>>)
    ELSE RunOps(dir, <<WriteOp(DHParamPath, rc.SSLConfig.DHParam, "0644")>>)

\* A location block that is "return 503;".
Return503(path) == [ path |-> path, return |-> "503" ]

\* RenderLocation without the test of Maintenance.
RenderLocationNoMaintenance(rc, location) ==
    LET app == rc.AppConfigs[location.App]
    IN  IF app.Available
        THEN [ path                  |-> location.Path,
               proxy_buffering       |-> app.Nginx.ProxyBuffersConfig.Enabled,
               proxy_buffer_size     |-> app.Nginx.ProxyBuffersConfig.Size,
               proxy_buffers         |-> << app.Nginx.ProxyBuffersConfig.Number,
                                            app.Nginx.ProxyBuffersConfig.Size >>,
               proxy_busy_buffers_size |-> app.Nginx.ProxyBuffersConfig.BusySize,
               proxy_connect_timeout |-> app.ConnectTimeout,
               proxy_send_timeout    |-> app.TCPTimeout,
               proxy_read_timeout    |-> app.TCPTimeout,
               proxy_pass            |-> app.ServiceIP ]
        ELSE Return503(location.Path)

\* What confTemplate renders of a snapshot: the files of the certificate
\* directory it names (the default certificate of the image lies in a
\* subdirectory and is left out), one server block per app and domain, one
\* location block per Location (rendered from the Location's app), and the
\* builder stream.
RenderLocation(rc, location) ==
    LET app == rc.AppConfigs[location.App]
    IN  IF app.Maintenance THEN Return503(location.Path)
        ELSE IF app.Available
        THEN [ path                  |-> location.Path,
               proxy_buffering       |-> app.Nginx.ProxyBuffersConfig.Enabled,
               proxy_buffer_size     |-> app.Nginx.ProxyBuffersConfig.Size,
               proxy_buffers         |-> << app.Nginx.ProxyBuffersConfig.Number,
                                            app.Nginx.ProxyBuffersConfig.Size >>,
               proxy_busy_buffers_size |-> app.Nginx.ProxyBuffersConfig.BusySize,
               proxy_connect_timeout |-> app.ConnectTimeout,
               proxy_send_timeout    |-> app.TCPTimeout,
               proxy_read_timeout    |-> app.TCPTimeout,
               proxy_pass            |-> app.ServiceIP ]
        ELSE Return503(location.Path)

\* RenderServer with the TLS part rendered for every domain that has an entry in
\* Certificates, a nil one included.
RenderServerForEntry(rc, appConfig, domain) ==
    [ serverName |-> domain,
      appName    |-> appConfig.Name,
      ssl        |-> domain \in DOMAIN appConfig.Certificates,
      dhparam    |-> rc.SSLConfig.DHParam # "",
      maintenance |-> appConfig.Maintenance,
      files      |-> IF domain \in DOMAIN appConfig.Certificates
                     THEN {Crt(domain), Key(domain)}
                          \cup (IF rc.SSLConfig.DHParam # "" THEN {DHParamPath} ELSE {})
                     ELSE {},
      locations  |-> [k \in DOMAIN appConfig.Locations |->
                         RenderLocation(rc, appConfig.Locations[k])] ]

RenderServer(rc, appConfig, domain) ==
    [ serverName |-> domain,
      appName    |-> appConfig.Name,
      ssl        |-> domain \in DOMAIN appConfig.Certificates
                     /\ appConfig.Certificates[domain] # Nil,
      dhparam    |-> rc.SSLConfig.DHParam # "",
      maintenance |-> appConfig.Maintenance,
      files      |-> IF domain \in DOMAIN appConfig.Certificates
                           /\ appConfig.Certificates[domain] # Nil
                     THEN {Crt(domain), Key(domain)}
                          \cup (IF rc.SSLConfig.DHParam # "" THEN {DHParamPath} ELSE {})
                     ELSE {},
      locations  |-> [k \in DOMAIN appConfig.Locations |->
                         RenderLocation(rc, appConfig.Locations[k])] ]

Render(rc) ==
    [ keepaliveTimeout |-> rc.DefaultTimeout,
      platformCert     |-> rc.PlatformCertificate # Nil,
      dhparam          |-> rc.SSLConfig.DHParam # "",
      sslBufferSize    |-> rc.SSLConfig.BufferSize,
      proxyBuffers     |-> rc.ProxyBuffersConfig,
      files            |-> (IF rc.PlatformCertificate # Nil
                            THEN {Crt("platform"), Key("platform")} ELSE {})
                           \cup (IF rc.SSLConfig.DHParam # "" THEN {DHParamPath} ELSE {}),
      servers          |-> Flatten([i \in DOMAIN rc.AppConfigs |->
                               [k \in DOMAIN rc.AppConfigs[i].Domains |->
                                   RenderServer(rc, rc.AppConfigs[i], rc.AppConfigs[i].Domains[k])]]),
      builder          |-> rc.BuilderConfig ]

\* What an interrupted template execution leaves in the file.
PartialConf == [partial |-> TRUE]

\* nginx.WriteConfig: the set of [err, conf] a call can end in; os.Create
\* truncates the file before the template is executed into it.
WriteConfig(rc, conf) ==
    { [err |-> FALSE, conf |-> Render(rc)],
      [err |-> TRUE,  conf |-> conf],
      [err |-> TRUE,  conf |-> PartialConf] }

\* ------------------------------------------------------------ cluster inputs

Secret(crt, key) == [e \in {"tls.crt", "tls.key"} |-> IF e = "tls.crt" THEN crt ELSE key]
SecretNoKey(crt) == [e \in {"tls.crt"} |-> crt]
SecretNoCrt(key) == [e \in {"tls.key"} |-> key]
DHSecret(dh)     == [e \in {"dhparam"} |-> dh]
SecretNoDH       == [e \in {"other"} |-> "x"]

Service(ns, name, ip, domains, certificates) ==
    [ Name |-> name, Namespace |-> ns, AppLabel |-> "", ClusterIP |-> ip,
      annotations |-> EmptyMap, domains |-> domains, certificates |-> certificates,
      proxyDomain |-> "", proxyLocations |-> <<>> ]

FooMapping == [d \in {"foo.com"} |-> "foo"]

\* The routable services that can exist, in the order the API lists them.
ServicePool ==
    << Service("ns1", "foo", "10.0.0.1", <<"foo.com", "platform">>, FooMapping),
       Service("ns2", "bar", "10.0.0.2", <<"foo.com">>, FooMapping),
       Service("ns2", "baz", "10.0.0.3", <<"platform">>, EmptyMap) >>

RECURSIVE SubSeqAt(_, _, _)
\* The elements of seq at the indices I, from index i on, in order.
SubSeqAt(seq, I, i) ==
    IF i > Len(seq) THEN <<>>
    ELSE (IF i \in I THEN <<seq[i]>> ELSE <<>>) \o SubSeqAt(seq, I, i + 1)

\* The service lists with at most n services of the pool.
ServiceLists(pool, n) ==
    {SubSeqAt(pool, I, 1) : I \in {J \in SUBSET DOMAIN pool : Cardinality(J) <= n}}

\* secrets: a set of <<namespace, name, data>>.
SecretMap(secrets) ==
    [k \in {<<x[1], x[2]>> : x \in secrets} |->
        (CHOOSE x \in secrets : <<x[1], x[2]>> = k)[3]]

Cluster(services, secrets, failing) ==
    [ deployment |-> EmptyMap,
      services   |-> services,
      builder    |-> Nil,
      secrets    |-> SecretMap(secrets),
      endpoints  |-> [k \in {<<services[i].Namespace, services[i].Name>> : i \in DOMAIN services}
                         |-> <<1>>],
      failing    |-> failing ]

PlatformSecrets == { {}, {<<namespace, "deis-router-platform-cert", Secret("pc", "pk")>>} }
DHSecrets       == { {}, {<<namespace, "deis-router-dhparam", DHSecret("dh")>>} }
AppSecrets      == { <<"ns1", "foo-cert", Secret("c1", "k1")>>,
                     <<"ns2", "foo-cert", Secret("c2", "k2")>> }

\* The routable services of the cluster the loop runs against.
LoopPool == SubSeq(ServicePool, 3, 3)

\* The cluster states a tick of the loop can observe.
LoopClusters ==
    { Cluster(services, p \cup d \cup AppSecrets, failing) :
        services \in ServiceLists(LoopPool, MaxRoutable),
        p \in PlatformSecrets, d \in DHSecrets,
        failing \in { {}, {<<"services", "routable">>} } }

\* ------------------------------------------------- router.go: the main loop

\* A step of a tick and whether it succeeded; retry: Build returned the snapshot
\* whose apply failed before.
Event(step, ok) == [step |-> step, ok |-> ok, retry |-> FALSE]
BuildEvent(ok, retry) == [step |-> "Build", ok |-> ok, retry |-> retry]

\* The nginx.conf the image ships.
InitialConf == [image |-> TRUE]

Init ==
    /\ pc = "Accept"
    /\ routerConfig = Nil
    /\ known = EmptyRouterConfig
    /\ certDir = EmptyMap
    /\ confFile = InitialConf
    /\ log = <<>>
    /\ failed = Nil
    /\ firstDir = Nil
    /\ kubeClient = Nil
    /\ built = Nil

\* The comparison of the two pointers in the place of reflect.DeepEqual: Build
\* returns a new object every time.
PointerEqual(a, b) == FALSE

\* reflect.DeepEqual(routerConfig, known)
DeepEqual(a, b) == a = b

\* rateLimiter.Accept()
Accept ==
    /\ pc = "Accept"
    /\ pc' = "Build"
    /\ log' = <<Event("Accept", TRUE)>>
    /\ routerConfig' = Nil
    /\ UNCHANGED <<known, certDir, confFile, failed, firstDir, kubeClient, built>>

\* AfterBuild without the comparison with known.
AfterBuildNoCompare(r, knownConfig) == IF r.err THEN "Accept" ELSE "WriteCerts"

\* AfterBuild without the continue on an error.
AfterBuildNoContinue(r, knownConfig) ==
    IF ~r.err /\ DeepEqual(r.val, knownConfig) THEN "Accept" ELSE "WriteCerts"

\* Where the loop goes after Build returned r: back to the top on an error or on
\* a snapshot equal to known, else into the apply sequence.
AfterBuild(r, knownConfig) ==
    IF r.err THEN "Accept"
    ELSE IF DeepEqual(r.val, knownConfig) THEN "Accept"
    ELSE "WriteCerts"

\* model.Build on the cluster as it is now, and the comparison with known
BuildFrom(cluster) ==
    LET r == Build(cluster) IN
    /\ pc' = AfterBuild(r, known)
    /\ routerConfig' = IF r.err THEN Nil ELSE r.val
    /\ log' = Append(log, BuildEvent(~r.err, ~r.err /\ r.val = failed))
    /\ failed' = IF r.err THEN failed ELSE Nil

\* The tick's Build: the cluster can be in any of its states
BuildStep ==
    /\ pc = "Build"
    /\ \E cluster \in LoopClusters : BuildFrom(cluster)
    /\ UNCHANGED <<known, certDir, confFile, firstDir, kubeClient, built>>

\* AfterStep without the continue on an error.
AfterStepNoContinue(err, next) == next

\* AfterStep with log.Fatalf in the place of log.Printf and continue.
AfterStepFatal(err, next) == IF err THEN "Exit" ELSE next

\* Where the loop goes after an apply step: on an error back to the top.
AfterStep(err, next) == IF err THEN "Accept" ELSE next

WriteCertsStep ==
    /\ pc = "WriteCerts"
    /\ \E r \in WriteCerts(routerConfig, certDir) :
         /\ certDir' = r.dir
         /\ pc' = AfterStep(r.err, "WriteDHParam")
         /\ log' = Append(log, Event("WriteCerts", ~r.err))
         /\ failed' = IF r.err THEN routerConfig ELSE failed
    /\ UNCHANGED <<routerConfig, known, confFile, firstDir, kubeClient, built>>

WriteDHParamStep ==
    /\ pc = "WriteDHParam"
    /\ \E r \in WriteDHParam(routerConfig, certDir) :
         /\ certDir' = r.dir
         /\ pc' = AfterStep(r.err, "WriteConfig")
         /\ log' = Append(log, Event("WriteDHParam", ~r.err))
         /\ failed' = IF r.err THEN routerConfig ELSE failed
    /\ UNCHANGED <<routerConfig, known, confFile, firstDir, kubeClient, built>>

WriteConfigStep ==
    /\ pc = "WriteConfig"
    /\ \E r \in WriteConfig(routerConfig, confFile) :
         /\ confFile' = r.conf
         /\ pc' = AfterStep(r.err, "Reload")
         /\ log' = Append(log, Event("WriteConfig", ~r.err))
         /\ failed' = IF r.err THEN routerConfig ELSE failed
    /\ UNCHANGED <<routerConfig, known, certDir, firstDir, kubeClient, built>>

\* Record with known assigned before the error of Reload is looked at.
RecordAlways(err, snapshot, knownConfig) == snapshot

\* The value of known after nginx.Reload returned.
Record(err, snapshot, knownConfig) == IF err THEN knownConfig ELSE snapshot

\* nginx.Reload, and known = routerConfig when it succeeded
ReloadStep ==
    /\ pc = "Reload"
    /\ \E err \in BOOLEAN :
         /\ known' = Record(err, routerConfig, known)
         /\ pc' = AfterStep(err, "Accept")
         /\ log' = Append(log, Event("Reload", ~err))
         /\ failed' = IF err THEN routerConfig ELSE failed
    /\ UNCHANGED <<routerConfig, certDir, confFile, firstDir, kubeClient, built>>

Next ==
    \/ Accept
    \/ BuildStep
    \/ WriteCertsStep
    \/ WriteDHParamStep
    \/ WriteConfigStep
    \/ ReloadStep

Spec == Init /\ [][Next]_vars

\* ------------------------------------- the materializer, run on its own

\* The cluster states the materializer's snapshots are built from: secrets
\* present, absent, or present without one of their entries.
MatClusters ==
    { Cluster(services, p \cup d \cup a, {}) :
        services \in ServiceLists(ServicePool, MaxListed),
        p \in PlatformSecrets
              \cup { {<<namespace, "deis-router-platform-cert", SecretNoKey("pc")>>} },
        d \in DHSecrets \cup { {<<namespace, "deis-router-dhparam", SecretNoDH>>} },
        a \in (SUBSET AppSecrets) \cup { {<<"ns1", "foo-cert", SecretNoKey("c1")>>} } }

MatSnapshots == {Build(cluster).val : cluster \in {c \in MatClusters : ~Build(c).err}}

File(data, mode) == [data |-> data, mode |-> mode]

\* What the directory can hold before a call: files of a domain that is no
\* longer routed, files of an earlier run with other content and permissions,
\* an earlier dhparam.pem.
LeftOvers ==
    { [f \in {Crt("old.example"), Key("old.example")} |-> File("old", "0644")],
      [f \in {Crt("foo.com"), Key("platform")} |-> File(Partial, "0640")],
      [f \in {DHParamPath} |-> File("olddh", "0600")] }

RECURSIVE Merge(_)
Merge(maps) ==
    IF maps = {} THEN EmptyMap
    ELSE LET m == CHOOSE x \in maps : TRUE
             rest == Merge(maps \ {m})
         IN  [f \in DOMAIN m \cup DOMAIN rest |-> IF f \in DOMAIN m THEN m[f] ELSE rest[f]]

InitialDirs == {Merge(left) : left \in SUBSET LeftOvers}

\* The log starts with what the directory held before the first call.
MatInit ==
    /\ pc = "WriteCerts"
    /\ routerConfig \in MatSnapshots
    /\ certDir \in InitialDirs
    /\ known = EmptyRouterConfig
    /\ confFile = InitialConf
    /\ log = <<[step |-> "Start", ok |-> TRUE, retry |-> FALSE, dir |-> certDir]>>
    /\ failed = Nil
    /\ firstDir = Nil
    /\ kubeClient = Nil
    /\ built = Nil

\* WriteCerts(routerConfig, sslPath), in the first and in the second run
MatWriteCerts ==
    /\ pc = "WriteCerts"
    /\ \E r \in WriteCerts(routerConfig, certDir) :
         /\ certDir' = r.dir
         /\ pc' = IF r.err THEN "Failed" ELSE "WriteDHParam"
         /\ log' = Append(log, Event("WriteCerts", ~r.err))
    /\ UNCHANGED <<routerConfig, known, confFile, failed, firstDir, kubeClient, built>>

\* WriteDHParam(routerConfig, sslPath); the first full run is followed by a second
MatWriteDHParam ==
    /\ pc = "WriteDHParam"
    /\ \E r \in WriteDHParam(routerConfig, certDir) :
         /\ certDir' = r.dir
         /\ pc' = IF r.err THEN "Failed" ELSE IF firstDir = Nil THEN "WriteCerts" ELSE "Done"
         /\ firstDir' = IF ~r.err /\ firstDir = Nil THEN r.dir ELSE firstDir
         /\ log' = Append(log, Event("WriteDHParam", ~r.err))
    /\ UNCHANGED <<routerConfig, known, confFile, failed, kubeClient, built>>

\* WriteConfig(routerConfig, ...) after the runs on the directory
MatWriteConfig ==
    /\ pc = "Done"
    /\ \E r \in WriteConfig(routerConfig, confFile) :
         /\ confFile' = r.conf
         /\ pc' = IF r.err THEN "Failed" ELSE "Rendered"
         /\ log' = Append(log, Event("WriteConfig", ~r.err))
    /\ UNCHANGED <<routerConfig, known, certDir, failed, firstDir, kubeClient, built>>

MatNext == MatWriteCerts \/ MatWriteDHParam \/ MatWriteConfig

MatSpec == MatInit /\ [][MatNext]_vars

\* ------------------------- the loop on a cluster that no longer changes, with
\* apply steps that succeed

\* The cluster states the loop can stay on.
StableClusters == MatClusters \cup LoopClusters

StableInit ==
    /\ pc = "Accept"
    /\ kubeClient \in StableClusters
    /\ routerConfig = Nil
    /\ known = EmptyRouterConfig
    /\ certDir \in InitialDirs
    /\ confFile = InitialConf
    /\ log = <<>>
    /\ failed = Nil
    /\ firstDir = Nil
    /\ built = Nil

\* The tick's Build: the cluster is the one of the tick before
StableBuild ==
    /\ pc = "Build"
    /\ BuildFrom(kubeClient)
    /\ UNCHANGED <<known, certDir, confFile, firstDir, kubeClient, built>>

StableWriteCerts   == WriteCertsStep /\ log'[Len(log')].ok
StableWriteDHParam == WriteDHParamStep /\ log'[Len(log')].ok
StableWriteConfig  == WriteConfigStep /\ log'[Len(log')].ok
StableReload       == ReloadStep /\ log'[Len(log')].ok

StableNext ==
    \/ Accept
    \/ StableBuild
    \/ StableWriteCerts
    \/ StableWriteDHParam
    \/ StableWriteConfig
    \/ StableReload

StableSpec == StableInit /\ [][StableNext]_vars

\* ------------------------------------------------ the synthesis, run on its own

\* How many routable services the cluster lists in a synthesis run.
MaxApps == 2

\* The routable services of the synthesis runs, in the order the API lists them:
\* the owner of foo.com; a borrower, labelled with its namespace, with a bare
\* domain that carries a certificate mapping; an app named as its namespace that
\* owns foo.com too and proxies to it, in maintenance; a service without
\* domains; a labelled app whose ProxyDomain nobody owns; the same without
\* ProxyLocations; a borrower of foo.com that declares "/" and a path another
\* borrower declares.
BuildPool ==
    << Service("ns1", "foo", "10.0.0.1", <<"foo.com">>, FooMapping),
       [Service("ns2", "api", "10.0.0.4", <<"api">>, [d \in {"api"} |-> "foo"])
            EXCEPT !.AppLabel = "ns2",
                   !.proxyDomain = "foo.com", !.proxyLocations = <<"/api", "/webhook">>,
                   !.annotations = "tcpTimeout" :> "45s" @@ "connectTimeout" :> "bogus"
                                   @@ "nginx.proxyBuffers.size" :> "6k"],
       [Service("deis", "deis", "10.0.0.5", <<"foo.com">>, EmptyMap)
            EXCEPT !.proxyDomain = "foo.com", !.proxyLocations = <<"/self">>,
                   !.annotations = "tcpTimeout" :> "bogus" @@ "maintenance" :> "true"
                                   @@ "nginx.proxyBuffers.enabled" :> "yes"],
       [Service("ns1", "idle", "10.0.0.6", <<>>, FooMapping)
            EXCEPT !.proxyDomain = "gone.com", !.proxyLocations = <<"/x">>],
       [Service("ns2", "bar", "10.0.0.2", <<"platform">>, EmptyMap)
            EXCEPT !.AppLabel = "web", !.proxyDomain = "gone.com", !.proxyLocations = <<"/x">>],
       [Service("ns2", "baz", "10.0.0.3", <<"platform", "foo.com">>, FooMapping)
            EXCEPT !.AppLabel = "web", !.proxyDomain = "gone.com"],
       [Service("ns3", "dup", "10.0.0.7", <<"dup">>, EmptyMap)
            EXCEPT !.proxyDomain = "foo.com", !.proxyLocations = <<"/", "/api">>,
                   !.annotations = "connectTimeout" :> "45s" @@ "maintenance" :> "maybe"] >>

\* What the router's own namespace holds: the platform-certificate secret, the
\* DH-parameters secret, the deis-router deployment's annotations and the
\* deis-builder service.
BuildEnvironments ==
    { [secrets |-> {}, deployment |-> EmptyMap, builder |-> Nil],
      [secrets    |-> {<<namespace, "deis-router-platform-cert", Secret("pc", "pk")>>,
                       <<namespace, "deis-router-dhparam", DHSecret("dh")>>},
       deployment |-> "defaultTimeout" :> "1500s" @@ "ssl.bufferSize" :> "6k"
                      @@ "proxyBuffers.size" :> "16k",
       builder    |-> [Service(namespace, "deis-builder", "10.0.0.9", <<>>, EmptyMap)
                          EXCEPT !.annotations = "connectTimeout" :> "45s"]],
      [secrets    |-> {<<namespace, "deis-router-platform-cert", SecretNoKey("pc")>>,
                       <<namespace, "deis-router-dhparam", SecretNoDH>>},
       deployment |-> "defaultTimeout" :> "bogus" @@ "proxyBuffers.size" :> "huge",
       builder    |-> [Service(namespace, "deis-builder", "10.0.0.9", <<>>, EmptyMap)
                          EXCEPT !.annotations = "tcpTimeout" :> "bogus"
                                                 @@ "connectTimeout" :> "1500s"]],
      [secrets    |-> {<<namespace, "deis-router-platform-cert", Secret("pc", "pk")>>},
       deployment |-> EmptyMap,
       builder    |-> Service(namespace, "deis-builder", "10.0.0.9", <<>>, EmptyMap)],
      [secrets    |-> {<<namespace, "deis-router-dhparam", DHSecret("dh")>>},
       deployment |-> "defaultTimeout" :> "1500s" @@ "proxyBuffers.enabled" :> "true",
       builder    |-> Nil] }

\* The Endpoints objects of the services, each the numbers of ready addresses of
\* its subsets: one subset with an address, no subset, no Endpoints object for
\* the first service listed, or for the first service listed a subset without a
\* ready address followed by a subset with one.
BuildEndpoints(services) ==
    LET keys == {<<services[i].Namespace, services[i].Name>> : i \in DOMAIN services}
    IN  { [k \in keys |-> <<1>>],
          [k \in keys |-> <<>>],
          [k \in keys |-> IF services # <<>> /\ k = <<services[1].Namespace, services[1].Name>>
                           THEN <<0, 1>> ELSE <<1>>],
          [k \in keys \ {<<services[i].Namespace, services[i].Name>> : i \in DOMAIN services \cap {1}}
              |-> <<1>>] }

\* The fetches that fail with something other than not-found.
BuildFailing ==
    { {}, {<<"ns1", "foo-cert">>}, {<<"ns2", "foo-cert">>}, {<<"services", "deis-builder">>} }

\* The cluster states of the synthesis runs.
BuildClusters ==
    UNION { { [Cluster(services, env.secrets \cup a, failing)
                 EXCEPT !.deployment = env.deployment, !.builder = env.builder,
                        !.endpoints = eps] :
                a \in { {}, AppSecrets, {<<"ns1", "foo-cert", SecretNoKey("c1")>>},
                        {<<"ns1", "foo-cert", SecretNoCrt("k1")>>} },
                failing \in BuildFailing,
                env \in BuildEnvironments,
                eps \in BuildEndpoints(services) } :
            services \in ServiceLists(BuildPool, MaxApps) }

BuildInit ==
    /\ pc = "Build"
    /\ kubeClient \in BuildClusters
    /\ built = Nil
    /\ routerConfig = Nil
    /\ known = EmptyRouterConfig
    /\ certDir = EmptyMap
    /\ confFile = InitialConf
    /\ log = <<>>
    /\ failed = Nil
    /\ firstDir = Nil

\* routerConfig, err := model.Build(kubeClient)
BuildCall ==
    /\ pc = "Build"
    /\ built' = Build(kubeClient)
    /\ pc' = "Built"
    /\ UNCHANGED <<kubeClient, routerConfig, known, certDir, confFile, log, failed, firstDir>>

\* nginx.WriteConfig(routerConfig, ...) on the snapshot Build returned.
RenderCall ==
    /\ pc = "Built"
    /\ ~built.err
    /\ \E r \in WriteConfig(built.val, confFile) :
           /\ confFile' = r.conf
           /\ pc' = IF r.err THEN "Failed" ELSE "Rendered"
    /\ UNCHANGED <<kubeClient, built, routerConfig, known, certDir, log, failed, firstDir>>

BuildNext == BuildCall \/ RenderCall

BuildSpec == BuildInit /\ [][BuildNext]_vars

\* ------------------------------------------------------------------ claims

ApplyOrder == <<"WriteCerts", "WriteDHParam", "WriteConfig", "Reload">>

\* The apply steps the current tick has invoked so far.
ApplySteps(l) == SubSeq(l, 3, Len(l))

Last(l) == l[Len(l)]

\* Build succeeded in the tick the log describes.
BuildOk(l) == Len(l) >= 2 /\ l[2].step = "Build" /\ l[2].ok

\* C1: a tick whose Build succeeds with a snapshot equal to known invokes no
\* apply step, leaves the certificate directory, the configuration file and
\* known as they were, and ends.
C1_EqualSnapshotTouchesNothing ==
    [][ (pc = "Build" /\ BuildOk(log') /\ DeepEqual(routerConfig', known))
            => /\ pc' = "Accept"
               /\ ApplySteps(log') = <<>>
               /\ UNCHANGED <<certDir, confFile, known>> ]_vars

C1_Witness ==
    /\ pc = "Accept"
    /\ BuildOk(log) /\ Len(log) = 2
    /\ routerConfig = known
    /\ known.PlatformCertificate # Nil
    /\ Crt("platform") \in DOMAIN certDir

\* C2: a tick whose Build returns an error invokes no apply step, leaves the
\* certificate directory, the configuration file and known as they were, and ends.
C2_BuildErrorSkipsTick ==
    [][ (pc = "Build" /\ ~Last(log').ok)
            => /\ pc' = "Accept"
               /\ ApplySteps(log') = <<>>
               /\ UNCHANGED <<certDir, confFile, known>> ]_vars

C2_Witness ==
    /\ pc = "Accept"
    /\ Len(log) = 2 /\ ~log[2].ok
    /\ known # EmptyRouterConfig

\* C3: the apply steps of a tick are invoked in the order WriteCerts,
\* WriteDHParam, WriteConfig, Reload, each only after every step before it
\* succeeded in the same tick, and only after a successful Build.
C3_ApplyOrder ==
    LET steps == ApplySteps(log) IN
    /\ Len(steps) <= Len(ApplyOrder)
    /\ \A i \in DOMAIN steps :
         /\ steps[i].step = ApplyOrder[i]
         /\ i < Len(steps) => steps[i].ok
    /\ steps # <<>> => BuildOk(log)
    /\ pc \in Range(ApplyOrder) =>
         /\ BuildOk(log)
         /\ \A i \in DOMAIN steps : steps[i].ok
         /\ pc = ApplyOrder[Len(steps) + 1]

C3_Witness ==
    /\ Len(ApplySteps(log)) = 4
    /\ ~Last(log).ok

\* C4: known changes only when Reload succeeded after WriteCerts, WriteDHParam
\* and WriteConfig succeeded in the same tick, and it becomes that tick's
\* snapshot; a step that fails leaves known as it was.
C4_KnownOnlyOnFullSuccess ==
    [][ /\ known' # known =>
            /\ Len(ApplySteps(log')) = 4
            /\ \A i \in 1..4 : ApplySteps(log')[i].ok
            /\ known' = routerConfig
            /\ pc' = "Accept"
        /\ (Len(log') > Len(log) /\ ~Last(log').ok) => known' = known ]_vars

C4_Witness ==
    /\ pc = "Accept"
    /\ Len(ApplySteps(log)) = 4 /\ Last(log).ok
    /\ known = routerConfig
    /\ known.AppConfigs # <<>>

\* The tick the log describes is over: Build failed, the snapshot equals known,
\* an apply step failed, or Reload succeeded.
TickOver ==
    /\ Len(log) >= 2
    /\ \/ ~Last(log).ok
       \/ Last(log).step = "Reload"
       \/ Len(log) = 2 /\ DeepEqual(routerConfig, known)

\* C5: whatever the outcome of a tick, the loop goes on: when the tick is over
\* the loop is at the token acquisition and can take it, the loop is never
\* anywhere but at one of its steps, and every tick starts with its own token
\* acquisition followed by one Build.
C5_LoopNeverEnds ==
    /\ pc \in {"Accept", "Build"} \cup Range(ApplyOrder)
    /\ TickOver => (pc = "Accept" /\ ENABLED Accept)
    /\ pc = "Accept" => (log = <<>> \/ TickOver)
    /\ log # <<>> => log[1].step = "Accept"
    /\ \A i \in DOMAIN log : log[i].step = "Build" <=> i = 2

C5_Witness ==
    /\ pc = "Build"
    /\ failed # Nil
    /\ known # EmptyRouterConfig

\* C6: when Build returns again the snapshot whose apply failed, the tick is not
\* skipped and resumes nothing: it goes into the apply sequence at WriteCerts.
C6_FailedSnapshotRetriedWhole ==
    (Len(log) >= 2 /\ log[2].retry) =>
        IF Len(log) = 2 THEN pc = "WriteCerts" ELSE log[3].step = "WriteCerts"

C6_Witness ==
    /\ Len(log) >= 3 /\ log[2].retry
    /\ log[3].step = "WriteCerts" /\ log[3].ok
    /\ known # EmptyRouterConfig

\* The contexts WriteCerts writes a pair for.
BoundContexts(rc) ==
    {c \in {"platform"} : rc.PlatformCertificate # Nil}
    \cup UNION {{d \in DOMAIN rc.AppConfigs[i].Certificates :
                    rc.AppConfigs[i].Certificates[d] # Nil} : i \in DOMAIN rc.AppConfigs}

\* The apps that bind the context to a certificate.
Binders(rc, c) ==
    {i \in DOMAIN rc.AppConfigs :
        c \in DOMAIN rc.AppConfigs[i].Certificates /\ rc.AppConfigs[i].Certificates[c] # Nil}

\* The certificate of the last app, in list order, that binds the context; the
\* platform certificate when no app binds it.
LastBound(rc, c) ==
    IF Binders(rc, c) = {} THEN rc.PlatformCertificate
    ELSE rc.AppConfigs[CHOOSE i \in Binders(rc, c) : \A j \in Binders(rc, c) : j <= i].Certificates[c]

\* The *.crt and *.key files of a directory, with their content.
CertData(dir) ==
    [f \in {g \in DOMAIN dir : g[2] \in {"crt", "key"}} |-> dir[f].data]

ExpectedCertData(rc) ==
    [f \in {Crt(c) : c \in BoundContexts(rc)} \cup {Key(c) : c \in BoundContexts(rc)} |->
        IF f[2] = "crt" THEN LastBound(rc, f[1]).Cert ELSE LastBound(rc, f[1]).Key]

\* dhparam.pem is there iff the snapshot carries DH parameters, and holds them.
DHParamInSync(rc, dir) ==
    /\ DHParamPath \in DOMAIN dir <=> rc.SSLConfig.DHParam # ""
    /\ DHParamPath \in DOMAIN dir => dir[DHParamPath].data = rc.SSLConfig.DHParam

\* The files on disk are the ones an apply of rc leaves.
InSync(rc) ==
    IF rc = EmptyRouterConfig
    THEN certDir = EmptyMap /\ confFile = InitialConf
    ELSE /\ CertData(certDir) = ExpectedCertData(rc)
         /\ DHParamInSync(rc, certDir)
         /\ confFile = Render(rc)

\* C7: after a tick whose apply failed and left the files out of step with the
\* applied snapshot, the next tick whose Build succeeds goes into the apply
\* sequence at WriteCerts, whatever snapshot Build returned.
C7_NextSynthesisRebuilds ==
    [][ (pc = "Build" /\ failed # Nil /\ ~InSync(known) /\ BuildOk(log'))
            => pc' = "WriteCerts" ]_vars

\* C8 as claimed: after a successful WriteCerts the *.crt and *.key files are the
\* pairs of the bound contexts, and each app's bound certificate is what the
\* pair of its domain holds.
C8_PairHoldsEveryBinding ==
    (pc = "WriteDHParam" /\ Last(log).step = "WriteCerts") =>
        /\ DOMAIN CertData(certDir) = DOMAIN ExpectedCertData(routerConfig)
        /\ routerConfig.PlatformCertificate # Nil =>
               /\ certDir[Crt("platform")].data = routerConfig.PlatformCertificate.Cert
               /\ certDir[Key("platform")].data = routerConfig.PlatformCertificate.Key
        /\ \A c \in BoundContexts(routerConfig) : \A i \in Binders(routerConfig, c) :
               /\ certDir[Crt(c)].data = routerConfig.AppConfigs[i].Certificates[c].Cert
               /\ certDir[Key(c)].data = routerConfig.AppConfigs[i].Certificates[c].Key

\* C8: after a successful WriteCerts the *.crt and *.key files are exactly the
\* pairs of the bound contexts, whatever the directory held before; the platform
\* pair holds the platform certificate, and the pair of a domain holds the
\* certificate of the last app, in list order, that binds the domain.
C8_PairsExactlyLastBinding ==
    (pc = "WriteDHParam" /\ Last(log).step = "WriteCerts") =>
        CertData(certDir) = ExpectedCertData(routerConfig)

C8_Witness ==
    /\ pc = "WriteDHParam" /\ Last(log).step = "WriteCerts"
    /\ Cardinality(Binders(routerConfig, "foo.com")) = 2
    /\ routerConfig.AppConfigs[1].Certificates["foo.com"]
           # routerConfig.AppConfigs[2].Certificates["foo.com"]
    /\ certDir[Crt("foo.com")].data = "c2"
    /\ Crt("old.example") \notin DOMAIN certDir

\* C9: a second successful run of WriteCerts, and of WriteDHParam after it, on
\* the same snapshot leaves the directory as the first successful run left it:
\* the same files with the same content.
C9_SecondRunSameDirectory ==
    (firstDir # Nil /\ pc \in {"WriteDHParam", "Done"}) => certDir = firstDir

C9_Witness ==
    /\ pc = "Done"
    /\ Cardinality(DOMAIN CertData(certDir)) >= 4
    /\ DHParamPath \in DOMAIN certDir

\* C10: after a successful WriteDHParam, dhparam.pem is in the directory iff the
\* snapshot's DHParam is not empty, and it then holds that value.
C10_DHParamPresentIffConfigured ==
    (log # <<>> /\ Last(log).step = "WriteDHParam" /\ Last(log).ok) =>
        DHParamInSync(routerConfig, certDir)

\* The file of an earlier run (it keeps its mode) now holds the new value.
C10_Witness ==
    /\ log # <<>> /\ Last(log).step = "WriteDHParam" /\ Last(log).ok
    /\ routerConfig.SSLConfig.DHParam = "dh"
    /\ certDir[DHParamPath] = File("dh", "0600")

\* Build has returned a snapshot.
Returned == pc = "Built" /\ ~built.err

\* C11: in every snapshot Build returns, the Locations of every AppConfig are not
\* empty, the last one has the path "/" and is owned by the AppConfig itself, and
\* every location owned by another app stands before it.
C11_RootLocationLast ==
    Returned =>
        \A i \in DOMAIN built.val.AppConfigs :
            LET locations == built.val.AppConfigs[i].Locations IN
            /\ Len(locations) >= 1
            /\ Last(locations) = [App |-> i, Path |-> "/"]
            /\ \A k \in DOMAIN locations : locations[k].App # i => k < Len(locations)

\* The owner of foo.com carries the two locations of the borrower, then its root.
C11_Witness ==
    /\ Returned
    /\ Len(built.val.AppConfigs) = 2
    /\ Len(built.val.AppConfigs[1].Locations) = 3
    /\ built.val.AppConfigs[1].Locations[1].App = 2
    /\ Len(built.val.AppConfigs[2].Locations) = 1

\* The services of the cluster that declare a domain: the apps, by their index in
\* the list.
Apps(c) == {i \in DOMAIN c.services : Len(c.services[i].domains) > 0}

\* The domains some app of the cluster owns.
Owned(c) == UNION {Range(c.services[i].domains) : i \in Apps(c)}

\* The apps whose ProxyDomain no app owns, and those of them that declare a
\* ProxyLocation.
Dangling(c) ==
    {i \in Apps(c) : c.services[i].proxyDomain # "" /\ c.services[i].proxyDomain \notin Owned(c)}
DanglingWithLocations(c) == {i \in Dangling(c) : Len(c.services[i].proxyLocations) > 0}

\* No fetch of the cluster fails, and every app has its Endpoints object.
FetchesSucceed(c) ==
    /\ c.failing = {}
    /\ \A i \in Apps(c) : <<c.services[i].Namespace, c.services[i].Name>> \in DOMAIN c.endpoints

\* Build failed, and with the error of linkLocations for the first app of D
\* unless a fetch failed before.
FailsNaming(c, D) ==
    /\ built.err
    /\ FetchesSucceed(c) =>
           /\ "proxyDomain" \in DOMAIN built
           /\ built.proxyDomain = c.services[CHOOSE i \in D : \A j \in D : i <= j].proxyDomain

AppIndex(c, i) == Cardinality({j \in Apps(c) : j <= i})

\* The apps that declare a ProxyDomain some app owns, and ProxyLocations.
Borrowers(c) ==
    {i \in Apps(c) : /\ c.services[i].proxyDomain \in Owned(c)
                      /\ Len(c.services[i].proxyLocations) > 0}

\* The first app, in list order, that owns the domain.
Target(c, domain) ==
    CHOOSE i \in Apps(c) :
        /\ domain \in Range(c.services[i].domains)
        /\ \A j \in Apps(c) : domain \in Range(c.services[j].domains) => i <= j

\* The locations of the list that the app owns.
OwnedBy(locations, app) ==
    LET Mine(location) == location.App = app IN SelectSeq(locations, Mine)

\* C13: in a returned snapshot, for every borrower the Locations of its target
\* hold, owned by the borrower, exactly the borrower's ProxyLocations in the
\* declared order (followed by the root when the borrower is its own target),
\* and no other app holds a location of the borrower besides the borrower's root.
C13_BorrowedLocationsInTarget ==
    Returned =>
        \A b \in Borrowers(kubeClient) :
            LET service == kubeClient.services[b]
                owner   == AppIndex(kubeClient, b)
                target  == AppIndex(kubeClient, Target(kubeClient, service.proxyDomain))
                root    == <<[App |-> owner, Path |-> "/"]>>
                paths   == [k \in DOMAIN service.proxyLocations |->
                               [App |-> owner, Path |-> service.proxyLocations[k]]]
            IN  \A a \in DOMAIN built.val.AppConfigs :
                    OwnedBy(built.val.AppConfigs[a].Locations, owner) =
                        (IF a = target THEN paths ELSE <<>>) \o (IF a = owner THEN root ELSE <<>>)

\* ns2/api borrows from deis/deis, listed after it, which is its own target too.
C13_Witness ==
    /\ Returned
    /\ Borrowers(kubeClient) = {1, 2}
    /\ Target(kubeClient, "foo.com") = 2
    /\ Len(built.val.AppConfigs[1].Locations) = 1
    /\ built.val.AppConfigs[2].Locations =
           << [App |-> 1, Path |-> "/api"], [App |-> 1, Path |-> "/webhook"],
              [App |-> 2, Path |-> "/self"], [App |-> 2, Path |-> "/"] >>

\* The "<alias>-cert" secrets that the certificate mappings of domains with a dot
\* name, as <<namespace, name>>.
MappedSecrets(c) ==
    UNION { { <<c.services[i].Namespace, CertSecretName[c.services[i].certificates[d]]>> :
                d \in {e \in Range(c.services[i].domains) \cap DOMAIN c.services[i].certificates :
                          HasDot(e)} } :
            i \in Apps(c) }

\* Every app has its Endpoints object.
EndpointsFound(c) ==
    \A i \in Apps(c) : <<c.services[i].Namespace, c.services[i].Name>> \in DOMAIN c.endpoints

\* C14: in a returned snapshot every domain without a dot is bound to the
\* snapshot's platform certificate (nil when there is none), whatever the
\* certificate mapping of its app; and no secret is fetched for it: a secret that
\* only such domains map to does not make Build fail when its fetch would fail.
C14_BareDomainGetsPlatformCertificate ==
    /\ Returned =>
          \A i \in Apps(kubeClient) : \A d \in Range(kubeClient.services[i].domains) :
              ~HasDot(d) =>
                  LET certificates == built.val.AppConfigs[AppIndex(kubeClient, i)].Certificates
                  IN  d \in DOMAIN certificates /\ certificates[d] = built.val.PlatformCertificate
    /\ ( /\ pc = "Built"
         /\ kubeClient.failing \subseteq {<<"ns1", "foo-cert">>, <<"ns2", "foo-cert">>}
         /\ kubeClient.failing \cap MappedSecrets(kubeClient) = {}
         /\ EndpointsFound(kubeClient)
         /\ DanglingWithLocations(kubeClient) = {} )
        => ~built.err

\* The bare domain api of ns2/api is mapped to foo, the secret ns2/foo-cert
\* exists with another certificate and its fetch would fail.
C14_Witness ==
    /\ Returned
    /\ kubeClient.failing = {<<"ns2", "foo-cert">>}
    /\ <<"ns2", "foo-cert">> \in DOMAIN kubeClient.secrets
    /\ Len(built.val.AppConfigs) = 2
    /\ "api" \in DOMAIN kubeClient.services[2].certificates
    /\ built.val.PlatformCertificate = newCertificate("pc", "pk")
    /\ built.val.AppConfigs[2].Certificates["api"] = newCertificate("pc", "pk")

\* The cluster without its routable services that declare no domain.
WithoutIdle(c) ==
    LET HasDomains(service) == Len(service.domains) > 0
    IN  [c EXCEPT !.services = SelectSeq(@, HasDomains)]

\* C15: a routable service without domains puts no AppConfig into the snapshot
\* and causes no error: Build returns what it returns for the cluster without
\* that service, and the AppConfigs of a returned snapshot are the services with
\* a domain, in list order, each with its domains.
C15_ServiceWithoutDomainsDropped ==
    /\ pc = "Built" => built = Build(WithoutIdle(kubeClient))
    /\ Returned =>
          /\ Len(built.val.AppConfigs) = Cardinality(Apps(kubeClient))
          /\ \A i \in Apps(kubeClient) :
                 LET appConfig == built.val.AppConfigs[AppIndex(kubeClient, i)] IN
                 /\ appConfig.Domains = kubeClient.services[i].domains
                 /\ appConfig.ServiceIP = kubeClient.services[i].ClusterIP
                 /\ Len(appConfig.Domains) >= 1

\* ns1/idle has no domain, no Endpoints object, and a ProxyDomain nobody owns.
C15_Witness ==
    /\ Returned
    /\ Len(kubeClient.services) = 2 /\ Apps(kubeClient) = {2}
    /\ kubeClient.services[1].proxyDomain = "gone.com"
    /\ Len(kubeClient.services[1].proxyLocations) = 1
    /\ ~EndpointsFound([kubeClient EXCEPT !.services[1].domains = <<"foo.com">>])
    /\ Len(built.val.AppConfigs) = 1

\* What a secret conveys: the pair of its entries tls.crt and tls.key when it
\* has both, and its entry dhparam when it has it.
ConveyedCertificate(data) ==
    IF {"tls.crt", "tls.key"} \subseteq DOMAIN data
    THEN [Cert |-> data["tls.crt"], Key |-> data["tls.key"]] ELSE Nil
ConveyedDHParam(data) == IF "dhparam" \in DOMAIN data THEN data["dhparam"] ELSE ""

\* The cluster with every entry a secret can lack put into its secrets.
WithCompleteSecrets(c) ==
    [c EXCEPT !.secrets =
        [k \in DOMAIN @ |->
            [e \in {"tls.crt", "tls.key", "dhparam"} |-> IF e \in DOMAIN @[k] THEN @[k][e] ELSE "x"]]]

\* C16: a secret that exists gives the certificate of its entries tls.crt and
\* tls.key when it has both and no certificate when it lacks one, and the DH
\* parameters of its entry dhparam or the empty string; a lacking entry never
\* makes Build fail: Build fails exactly when it fails with the entries present.
C16_IncompleteSecretDegrades ==
    /\ pc = "Built" => built.err = Build(WithCompleteSecrets(kubeClient)).err
    /\ Returned =>
          LET secrets == kubeClient.secrets IN
          /\ <<namespace, "deis-router-platform-cert">> \in DOMAIN secrets =>
                 built.val.PlatformCertificate =
                     ConveyedCertificate(secrets[<<namespace, "deis-router-platform-cert">>])
          /\ <<namespace, "deis-router-dhparam">> \in DOMAIN secrets =>
                 built.val.SSLConfig.DHParam =
                     ConveyedDHParam(secrets[<<namespace, "deis-router-dhparam">>])
          /\ \A i \in Apps(kubeClient) :
                 LET service == kubeClient.services[i] IN
                 \A d \in Range(service.domains) \cap DOMAIN service.certificates :
                     LET secret == <<service.Namespace, CertSecretName[service.certificates[d]]>>
                         certificates == built.val.AppConfigs[AppIndex(kubeClient, i)].Certificates
                     IN  (HasDot(d) /\ secret \in DOMAIN secrets) =>
                             /\ d \in DOMAIN certificates
                             /\ certificates[d] = ConveyedCertificate(secrets[secret])

\* The platform secret lacks tls.key, the DH secret lacks dhparam, the secret of
\* foo.com lacks tls.crt.
C16_Witness ==
    /\ Returned
    /\ {<<namespace, "deis-router-platform-cert">>, <<namespace, "deis-router-dhparam">>,
        <<"ns1", "foo-cert">>} \subseteq DOMAIN kubeClient.secrets
    /\ kubeClient.secrets[<<namespace, "deis-router-platform-cert">>] = SecretNoKey("pc")
    /\ kubeClient.secrets[<<namespace, "deis-router-dhparam">>] = SecretNoDH
    /\ kubeClient.secrets[<<"ns1", "foo-cert">>] = SecretNoCrt("k1")
    /\ built.val.PlatformCertificate = Nil
    /\ built.val.SSLConfig.DHParam = ""
    /\ Len(built.val.AppConfigs) >= 1
    /\ built.val.AppConfigs[1].Certificates = [d \in {"foo.com"} |-> Nil]

\* The fetch of a secret that a certificate mapping of a domain with a dot names
\* fails, and nothing else stands in the way of the synthesis.
MappedSecretFetchFails(c) ==
    /\ c.failing # {}
    /\ c.failing \subseteq MappedSecrets(c)
    /\ EndpointsFound(c)
    /\ DanglingWithLocations(c) = {}

\* C17 as claimed: when the fetch of the secret mapped to a domain with a dot
\* fails with something other than not-found, Build still returns a snapshot
\* with the app in it, the domain without a certificate.
C17_SecretFetchFailureDegrades ==
    (pc = "Built" /\ MappedSecretFetchFails(kubeClient)) =>
        /\ ~built.err
        /\ \A i \in Apps(kubeClient) :
               LET service == kubeClient.services[i]
                   certificates == built.val.AppConfigs[AppIndex(kubeClient, i)].Certificates
               IN  \A d \in Range(service.domains) \cap DOMAIN service.certificates :
                       (HasDot(d) /\ <<service.Namespace, CertSecretName[service.certificates[d]]>>
                                         \in kubeClient.failing)
                           => (d \notin DOMAIN certificates \/ certificates[d] = Nil)

\* C17: when the fetch of the secret mapped to a domain with a dot fails with
\* something other than not-found, Build returns an error and no snapshot.
C17_SecretFetchFailureAborts ==
    (pc = "Built" /\ kubeClient.failing \cap MappedSecrets(kubeClient) # {}) =>
        (built.err /\ built.val = Nil)

\* The fetch of ns1/foo-cert, mapped to foo.com of ns1/foo, fails; nothing else does.
C17_Witness ==
    /\ pc = "Built"
    /\ MappedSecretFetchFails(kubeClient)
    /\ kubeClient.failing = {<<"ns1", "foo-cert">>}
    /\ Apps(kubeClient) = {1}
    /\ built.err

\* The cluster with the objects Build may find absent put into it: the builder
\* service, the platform-certificate and DH-parameters secrets, and the
\* certificate secrets of the namespaces.
WithAllFound(c) ==
    LET wanted == {<<namespace, "deis-router-platform-cert">>, <<namespace, "deis-router-dhparam">>,
                   <<"ns1", "foo-cert">>, <<"ns2", "foo-cert">>, <<"deis", "foo-cert">>}
    IN  [c EXCEPT
            !.builder = IF @ = Nil
                        THEN Service(namespace, "deis-builder", "10.0.0.9", <<>>, EmptyMap) ELSE @,
            !.secrets = [k \in DOMAIN @ \cup wanted |->
                            IF k \in DOMAIN @ THEN @[k]
                            ELSE [e \in {"tls.crt", "tls.key", "dhparam"} |-> "x"]]]

\* C18: a builder service or a secret that is not found does not make Build
\* fail (Build fails exactly when it fails with the objects present), and the
\* returned snapshot has no BuilderConfig, no PlatformCertificate, an empty
\* DHParam, or no certificate for the domain.
C18_NotFoundIsAbsentValue ==
    /\ pc = "Built" => built.err = Build(WithAllFound(kubeClient)).err
    /\ Returned =>
          /\ kubeClient.builder = Nil => built.val.BuilderConfig = Nil
          /\ <<namespace, "deis-router-platform-cert">> \notin DOMAIN kubeClient.secrets
                 => built.val.PlatformCertificate = Nil
          /\ <<namespace, "deis-router-dhparam">> \notin DOMAIN kubeClient.secrets
                 => built.val.SSLConfig.DHParam = ""
          /\ \A i \in Apps(kubeClient) :
                 LET service == kubeClient.services[i] IN
                 \A d \in Range(service.domains) \cap DOMAIN service.certificates :
                     (HasDot(d) /\ <<service.Namespace, CertSecretName[service.certificates[d]]>>
                                       \notin DOMAIN kubeClient.secrets)
                         => d \notin DOMAIN built.val.AppConfigs[AppIndex(kubeClient, i)].Certificates

\* Nothing optional is found: no builder service, no secret at all.
C18_Witness ==
    /\ Returned
    /\ kubeClient.builder = Nil
    /\ DOMAIN kubeClient.secrets = {}
    /\ Len(built.val.AppConfigs) = 2
    /\ "foo.com" \in DOMAIN kubeClient.services[1].certificates
    /\ built.val.AppConfigs[1].Certificates = EmptyMap
    /\ built.val.BuilderConfig = Nil /\ built.val.PlatformCertificate = Nil
    /\ built.val.SSLConfig.DHParam = ""

\* No fetch of the builder service or of a secret Build asks for fails with
\* something other than not-found.
NoFetchFailure(c) ==
    c.failing \cap (MappedSecrets(c) \cup {<<"services", "deis-builder">>}) = {}

\* C19 as claimed: when every fetch succeeds or reports not-found, Build returns
\* an error only if some app's ProxyDomain matches no app's domain.
C19_OnlyDanglingProxyDomainAborts ==
    (pc = "Built" /\ NoFetchFailure(kubeClient) /\ built.err)
        => Dangling(kubeClient) # {}

\* C19: when every fetch succeeds, or reports not-found for the builder service
\* or a secret, and every app has its Endpoints object, Build returns an error
\* only if some app's ProxyDomain matches no app's domain, whatever the
\* annotations, the entries of the secrets and the subsets of the Endpoints are.
C19_OnlyDanglingOrMissingEndpointsAborts ==
    (pc = "Built" /\ NoFetchFailure(kubeClient) /\ EndpointsFound(kubeClient) /\ built.err)
        => Dangling(kubeClient) # {}

\* Annotations that fail their pattern, secrets without their entries, Endpoints
\* without subsets: Build returns a snapshot.
C19_Witness ==
    /\ Returned
    /\ NoFetchFailure(kubeClient) /\ EndpointsFound(kubeClient)
    /\ "defaultTimeout" \in DOMAIN kubeClient.deployment
    /\ kubeClient.deployment["defaultTimeout"] = "bogus"
    /\ <<"ns1", "foo-cert">> \in DOMAIN kubeClient.secrets
    /\ kubeClient.secrets[<<"ns1", "foo-cert">>] = SecretNoCrt("k1")
    /\ Len(built.val.AppConfigs) = 2
    /\ \A i \in 1..2 : ~built.val.AppConfigs[i].Available
    /\ built.val.DefaultTimeout = "1300s"

\* C20: the name of an AppConfig is the app label of its service when set, else
\* the service's name, alone when it equals the service's namespace and with
\* the namespace and "/" in front otherwise.
C20_AppNameFromService ==
    Returned =>
        \A i \in Apps(kubeClient) :
            LET service == kubeClient.services[i]
                name    == built.val.AppConfigs[AppIndex(kubeClient, i)].Name
            IN  /\ (service.AppLabel # "" /\ service.AppLabel = service.Namespace)
                       => name = <<service.AppLabel>>
                /\ (service.AppLabel # "" /\ service.AppLabel # service.Namespace)
                       => name = <<service.Namespace, "/", service.AppLabel>>
                /\ (service.AppLabel = "" /\ service.Name = service.Namespace)
                       => name = <<service.Name>>
                /\ (service.AppLabel = "" /\ service.Name # service.Namespace)
                       => name = <<service.Namespace, "/", service.Name>>

\* ns2/api labelled ns2 is "ns2"; deis/deis without a label is "deis".
C20_Witness ==
    /\ Returned
    /\ Len(built.val.AppConfigs) = 2
    /\ kubeClient.services[1].Name = "api" /\ kubeClient.services[1].AppLabel = "ns2"
    /\ built.val.AppConfigs[1].Name = <<"ns2">>
    /\ kubeClient.services[2].Name = "deis" /\ kubeClient.services[2].AppLabel = ""
    /\ built.val.AppConfigs[2].Name = <<"deis">>

\* The Endpoints object of the i-th service: the numbers of ready addresses of
\* its subsets.
EndpointsOf(c, i) == c.endpoints[<<c.services[i].Namespace, c.services[i].Name>>]

\* C21: in a returned snapshot, an AppConfig's Available is true iff the
\* Endpoints object fetched for its service holds at least one ready address in
\* any of its subsets.
C21_AvailableIffReadyAddress ==
    Returned =>
        \A i \in Apps(kubeClient) :
            built.val.AppConfigs[AppIndex(kubeClient, i)].Available
                <=> \E k \in DOMAIN EndpointsOf(kubeClient, i) : EndpointsOf(kubeClient, i)[k] > 0

\* The values a key's field accepts, among the annotation values of the model.
Constraint(key) ==
    IF key \in {"defaultTimeout", "connectTimeout", "tcpTimeout"} THEN ValidTimeouts
    ELSE IF key \in {"ssl.bufferSize", "proxyBuffers.size", "nginx.proxyBuffers.size"}
         THEN ValidSizes
    ELSE {"true", "false"}

\* The annotations without the keys whose value is not valid.
Cleaned(annotations) ==
    [k \in {x \in DOMAIN annotations : annotations[x] \in Constraint(x)} |-> annotations[k]]

\* The cluster with every invalid annotation of the deployment, of the builder
\* service and of the routable services taken away.
WithCleanAnnotations(c) ==
    [c EXCEPT !.deployment = Cleaned(@),
              !.builder = IF @ = Nil THEN @ ELSE [@ EXCEPT !.annotations = Cleaned(@)],
              !.services = [i \in DOMAIN @ |-> [@[i] EXCEPT !.annotations = Cleaned(@)]]]

\* The annotation's value when the key is present with a valid value, else the
\* default.
Overlay(annotations, key, default) ==
    IF key \in DOMAIN Cleaned(annotations) THEN annotations[key] ELSE default
OverlayBool(annotations, key, default) ==
    IF key \in DOMAIN Cleaned(annotations) THEN annotations[key] = "true" ELSE default

C23_KeyAndCrtModes ==
    (pc = "WriteDHParam" /\ Last(log).step = "WriteCerts") =>
        \A f \in DOMAIN certDir :
            /\ f[2] = "key" => certDir[f].mode = "0600"
            /\ f[2] = "crt" => certDir[f].mode = "0644"

\* foo.com.crt and platform.key were there with the mode 0640 before the first
\* call, which wrote the pair of foo.com twice, for two apps.
C23_Witness ==
    /\ pc = "WriteDHParam" /\ Len(log) = 2 /\ Last(log).step = "WriteCerts"
    /\ Crt("foo.com") \in DOMAIN log[1].dir /\ log[1].dir[Crt("foo.com")].mode = "0640"
    /\ Key("platform") \in DOMAIN log[1].dir /\ log[1].dir[Key("platform")].mode = "0640"
    /\ Cardinality(Binders(routerConfig, "foo.com")) = 2
    /\ routerConfig.PlatformCertificate # Nil
    /\ certDir[Crt("foo.com")].mode = "0644"
    /\ certDir[Key("foo.com")].mode = "0600"
    /\ certDir[Key("platform")].mode = "0600"

\* The AppConfigs of the snapshot whose Domains hold the domain.
Claimants(rc, domain) == {i \in DOMAIN rc.AppConfigs : domain \in Range(rc.AppConfigs[i].Domains)}

\* The positions <<a, k>> of the locations linked from the app b: those it owns
\* in any app's Locations, its own root left out.
LinkedFrom(rc, b) ==
    {p \in UNION {{<<a, k>> : k \in DOMAIN rc.AppConfigs[a].Locations} : a \in DOMAIN rc.AppConfigs} :
        /\ rc.AppConfigs[p[1]].Locations[p[2]].App = b
        /\ ~(p[1] = b /\ p[2] = Len(rc.AppConfigs[b].Locations))}

\* C24: in a returned snapshot, when two or more AppConfigs hold the domain D in
\* their Domains, every location linked from an app whose ProxyDomain is D lies
\* in the Locations of the first of them in list order, and all of the app's
\* ProxyLocations are there.
C24_FirstClaimantIsTarget ==
    Returned =>
        \A b \in DOMAIN built.val.AppConfigs :
            LET rc    == built.val
                owners == Claimants(rc, rc.AppConfigs[b].ProxyDomain)
            IN  (Cardinality(owners) >= 2 /\ Len(rc.AppConfigs[b].ProxyLocations) > 0) =>
                    LET first == CHOOSE i \in owners : \A j \in owners : i <= j
                    IN  /\ \A p \in LinkedFrom(rc, b) : p[1] = first
                        /\ Cardinality(LinkedFrom(rc, b)) = Len(rc.AppConfigs[b].ProxyLocations)

\* ns1/foo and deis/deis both own foo.com; deis/deis, the second, proxies to
\* foo.com and its location went to ns1/foo, not to itself.
C24_Witness ==
    /\ Returned
    /\ Len(built.val.AppConfigs) = 2
    /\ Claimants(built.val, "foo.com") = {1, 2}
    /\ built.val.AppConfigs[2].ProxyDomain = "foo.com"
    /\ built.val.AppConfigs[2].ProxyLocations = <<"/self">>
    /\ LinkedFrom(built.val, 2) = {<<1, 1>>}
    /\ Len(built.val.AppConfigs[2].Locations) = 1

\* C25: the empty RouterConfig known starts as is no snapshot Build returns, so
\* a tick whose Build succeeds while known is still the empty RouterConfig is
\* not skipped: it goes into the apply sequence at WriteCerts.
C25_FirstSnapshotIsApplied ==
    [][ (pc = "Build" /\ known = EmptyRouterConfig /\ BuildOk(log'))
            => (routerConfig' # EmptyRouterConfig /\ pc' = "WriteCerts") ]_vars

\* The first tick, on a cluster without routable services, secrets or
\* annotations: the snapshot is the one of the defaults, and it is applied.
C25_Witness ==
    /\ pc = "WriteCerts"
    /\ known = EmptyRouterConfig
    /\ BuildOk(log)
    /\ routerConfig = newRouterConfig
    /\ certDir = EmptyMap /\ confFile = InitialConf

\* The files of the certificate directory a rendered configuration names.
ReferencedFiles(conf) == conf.files \cup UNION {conf.servers[i].files : i \in DOMAIN conf.servers}

\* C26: after WriteCerts, WriteDHParam and WriteConfig succeeded on one snapshot,
\* every file of the certificate directory the rendered configuration names is
\* in the directory and holds what the materializer wrote for that snapshot:
\* the platform pair, the pair of every app domain with a bound certificate,
\* and dhparam.pem.
C26_ReferencedFilesWritten ==
    pc = "Rendered" =>
        \A f \in ReferencedFiles(confFile) :
            /\ f \in DOMAIN certDir
            /\ certDir[f].data = IF f = DHParamPath THEN routerConfig.SSLConfig.DHParam
                                 ELSE ExpectedCertData(routerConfig)[f]

\* The configuration names the platform pair, the pair of foo.com and
\* dhparam.pem, and has a server block without TLS files.
C26_Witness ==
    /\ pc = "Rendered"
    /\ {Crt("platform"), Key("platform"), DHParamPath} \subseteq confFile.files
    /\ \E i \in DOMAIN confFile.servers :
           {Crt("foo.com"), Key("foo.com"), DHParamPath} \subseteq confFile.servers[i].files
    /\ \E i \in DOMAIN confFile.servers : confFile.servers[i].files = {}

\* Build fails on the cluster, or known is the snapshot of the cluster.
Settled == LET b == Build(kubeClient) IN b.err \/ known = b.val

\* C27: on a cluster that no longer changes and with apply steps that succeed,
\* a tick whose snapshot differs from known goes through the apply sequence and
\* leaves known equal to the snapshot of the cluster; once known is that
\* snapshot (or as long as Build fails) no step writes a file, reloads or
\* changes known, every tick going from Build back to the top.
C27_ConvergesAfterOneApply ==
    [][ LET b == Build(kubeClient) IN
        /\ (pc = "Build" /\ ~b.err /\ known # b.val) => pc' = "WriteCerts"
        /\ pc = "Reload" => (pc' = "Accept" /\ known' = b.val)
        /\ Settled =>
               /\ pc' \in {"Accept", "Build"}
               /\ UNCHANGED <<known, certDir, confFile>> ]_vars

\* A tick after the applying one, on a cluster with two apps and a platform
\* certificate: Build returned the snapshot that is applied, and the tick is
\* over after Build.
C27_Witness ==
    /\ pc = "Accept" /\ Len(log) = 2 /\ BuildOk(log)
    /\ known = routerConfig
    /\ known = Build(kubeClient).val
    /\ Len(known.AppConfigs) = 2
    /\ known.PlatformCertificate # Nil
    /\ InSync(known)

\* C28: in a returned snapshot the paths of the Locations of one AppConfig are
\* pairwise distinct, so that exactly one of them has the path "/".
C28_LocationPathsDistinct ==
    Returned =>
        \A a \in DOMAIN built.val.AppConfigs :
            LET locations == built.val.AppConfigs[a].Locations
            IN  \A j, k \in DOMAIN locations :
                    j # k => locations[j].Path # locations[k].Path

\* The index in the rendered servers of the server block of the d-th domain of
\* the a-th AppConfig.
ServerIndex(rc, a, d) ==
    Cardinality({p \in UNION {{<<i, k>> : k \in DOMAIN rc.AppConfigs[i].Domains} :
                                  i \in DOMAIN rc.AppConfigs} :
                    p[1] < a \/ (p[1] = a /\ p[2] <= d)})

\* The location block that serves the path from the backend of the app.
ServedBy(app, path) ==
    IF app.Maintenance \/ ~app.Available
    THEN [ path |-> path, return |-> "503" ]
    ELSE [ path                  |-> path,
           proxy_buffering       |-> app.Nginx.ProxyBuffersConfig.Enabled,
           proxy_buffer_size     |-> app.Nginx.ProxyBuffersConfig.Size,
           proxy_buffers         |-> << app.Nginx.ProxyBuffersConfig.Number,
                                        app.Nginx.ProxyBuffersConfig.Size >>,
           proxy_busy_buffers_size |-> app.Nginx.ProxyBuffersConfig.BusySize,
           proxy_connect_timeout |-> app.ConnectTimeout,
           proxy_send_timeout    |-> app.TCPTimeout,
           proxy_read_timeout    |-> app.TCPTimeout,
           proxy_pass            |-> app.ServiceIP ]

\* C29: in the rendered configuration, the block of a location linked from a
\* borrower into the server blocks of its target is made from the borrower
\* alone: it returns 503 iff the borrower is in maintenance or not available,
\* and else proxies to the borrower's service IP with the borrower's timeouts
\* and proxy buffers, whatever the target's Available and Maintenance are.
C29_LinkedLocationServedByBorrower ==
    pc = "Rendered" =>
        LET rc == built.val IN
        \A a \in DOMAIN rc.AppConfigs : \A d \in DOMAIN rc.AppConfigs[a].Domains :
            \A k \in DOMAIN rc.AppConfigs[a].Locations :
                LET location == rc.AppConfigs[a].Locations[k]
                IN  location.App # a =>
                        confFile.servers[ServerIndex(rc, a, d)].locations[k]
                            = ServedBy(rc.AppConfigs[location.App], location.Path)

\* deis/deis, in maintenance, is the target of ns2/api: the block of /api in its
\* server proxies to ns2/api with the timeout and the buffer size of ns2/api,
\* while its own root returns 503.
C29_Witness ==
    /\ pc = "Rendered"
    /\ Len(built.val.AppConfigs) = 2
    /\ built.val.AppConfigs[2].Maintenance /\ built.val.AppConfigs[2].Available
    /\ built.val.AppConfigs[1].Available
    /\ Len(confFile.servers) = 2
    /\ confFile.servers[2].maintenance
    /\ Len(confFile.servers[2].locations) = 4
    /\ confFile.servers[2].locations[1].path = "/api"
    /\ "proxy_pass" \in DOMAIN confFile.servers[2].locations[1]
    /\ confFile.servers[2].locations[1].proxy_pass = "10.0.0.4"
    /\ confFile.servers[2].locations[1].proxy_send_timeout = "45s"
    /\ confFile.servers[2].locations[1].proxy_buffer_size = "6k"
    /\ confFile.servers[2].locations[4] = Return503("/")

\* The cluster with the annotations of its i-th service taken away.
WithoutAnnotations(c, i) == [c EXCEPT !.services[i].annotations = EmptyMap]

\* The snapshot without its AppConfigs: the router-level configuration.
RouterLevel(rc) == [rc EXCEPT !.AppConfigs = <<>>]

\* C30: in a returned snapshot, taking the annotations of one app away changes
\* neither the router-level configuration nor the AppConfig of any other app,
\* and leaves that app with the router's bound DefaultTimeout as TCPTimeout and
\* with proxy buffers equal to the router's bound ProxyBuffersConfig; with its
\* annotations, the app differs from that only in the fields they bind.
C30_AppStartsFromRouterValues ==
    Returned =>
        \A i \in Apps(kubeClient) :
            LET rc    == built.val
                a     == AppIndex(kubeClient, i)
                plain == Build(WithoutAnnotations(kubeClient, i))
            IN  /\ ~plain.err
                /\ RouterLevel(plain.val) = RouterLevel(rc)
                /\ \A j \in DOMAIN rc.AppConfigs : j # a => plain.val.AppConfigs[j] = rc.AppConfigs[j]
                /\ plain.val.AppConfigs[a].TCPTimeout = rc.DefaultTimeout
                /\ plain.val.AppConfigs[a].Nginx.ProxyBuffersConfig = rc.ProxyBuffersConfig
                /\ MapToAppConfig(kubeClient.services[i].annotations, plain.val.AppConfigs[a])
                       = rc.AppConfigs[a]

\* The router binds defaultTimeout and proxyBuffers.enabled; ns1/foo, without
\* annotations, has the router's values; ns2/api binds its own timeout and
\* buffer size, and the router's and ns1/foo's stay as they are.
C30_Witness ==
    /\ Returned
    /\ Len(built.val.AppConfigs) = 2
    /\ built.val.DefaultTimeout = "1500s"
    /\ built.val.ProxyBuffersConfig = [Enabled |-> TRUE, Number |-> 8, Size |-> "4k", BusySize |-> "8k"]
    /\ built.val.AppConfigs[1].TCPTimeout = "1500s"
    /\ built.val.AppConfigs[1].Nginx.ProxyBuffersConfig = built.val.ProxyBuffersConfig
    /\ built.val.AppConfigs[2].TCPTimeout = "45s"
    /\ built.val.AppConfigs[2].Nginx.ProxyBuffersConfig =
           [Enabled |-> TRUE, Number |-> 8, Size |-> "6k", BusySize |-> "8k"]

====
